---- MODULE Spec2Model ----
(***************************************************************************)
(* lt2j: read worklog rows from a spreadsheet and create them in, or       *)
(* remove them from, a Jira server.  The script (src/lt2j.py) is a linear  *)
(* batch program; this module models one invocation of it as a state       *)
(* machine whose steps are the script's sections and loop iterations, cut  *)
(* at the remote calls, together with the remote service it talks to.      *)
(*                                                                         *)
(* --debug only prints, except for the second jira.myself() of line 77,    *)
(* whose failure is one of the ways Authenticate fails.  argparse admits   *)
(* only "create" and "remove" (line 37), so the branch of lines 171-173    *)
(* is never taken.  A worklog's fields do not change while the script      *)
(* runs, so the raw JSON a list call returned and the detail fetched       *)
(* later agree.                                                            *)
(***************************************************************************)
EXTENDS Integers, Sequences, FiniteSets, TLC

(***************************************************************************)
(* Bounds of the exploration.                                              *)
(***************************************************************************)
\* longest spreadsheet explored, and largest row index given to --start/--end
MaxRows == 2
\* most worklogs present on the server before the run
MaxRemote == 2

(***************************************************************************)
(* Built-in configuration.                                                 *)
(***************************************************************************)
fmap == [date |-> 0, time_from |-> 1, time_to |-> 2, duration |-> 3,
         issue_id |-> 4, description |-> 5]

\* len(fmap)
LenFmap == Cardinality(DOMAIN fmap)

\* row[fmap[name]]: Python indexes from 0, TLA+ sequences from 1
Field(row, name) == row[fmap[name] + 1]

(***************************************************************************)
(* The values the exploration draws its inputs from.                       *)
(***************************************************************************)
Issues == {"PROJ-1", "PROJ-2"}

\* the user the token authenticates as, and somebody else
Me == "U"
Users == {Me, "V"}

Day == [year |-> 2024, month |-> 3, day |-> 1]
Nine == [hour |-> 9, minute |-> 0, second |-> 0]
Ten == [hour |-> 10, minute |-> 0, second |-> 0]

\* duration cells: 0:01:00 and 1:30:15
DurationCells == {[hour |-> 0, minute |-> 1, second |-> 0],
                  [hour |-> 1, minute |-> 30, second |-> 15]}

FullRows == {<<Day, Nine, Ten, du, is, "work">> : du \in DurationCells, is \in Issues}

\* a row with fewer than len(fmap) cells
ShortRows == {<<Day, Nine, Ten>>}

Rows == FullRows \cup ShortRows

\* all sequences over S of length at most n
RECURSIVE SeqsUpTo(_, _)
SeqsUpTo(S, n) ==
  IF n = 0 THEN {<<>>}
  ELSE LET shorter == SeqsUpTo(S, n - 1)
       IN shorter \cup {Append(s, x) : s \in {t \in shorter : Len(t) = n - 1}, x \in S}

(***************************************************************************)
(* Dates and times.                                                        *)
(***************************************************************************)
\* utcoffset, in seconds, of the machine's zone on a date: tzinfo=get_localzone()
LocalUtcOffset(date) == 60 * 60

\* the aware datetime built from a date cell and a time cell
started_dt(date, time_from) ==
  [year |-> date.year, month |-> date.month, day |-> date.day,
   hour |-> time_from.hour, minute |-> time_from.minute, second |-> time_from.second,
   utcoffset |-> LocalUtcOffset(date)]

\* a slip in the factor of the hours
duration_sec_typo(duration) == duration.second + duration.minute * 60 + duration.hour * 60

\* duration.second + duration.minute * 60 + duration.hour * 3600
duration_sec(duration) == duration.second + duration.minute * 60 + duration.hour * 3600

\* seconds since the start of the month, in UTC, of an aware datetime
Instant(dt) == ((dt.day * 24 + dt.hour) * 60 + dt.minute) * 60 + dt.second - dt.utcoffset

\* == of two aware datetimes with different tzinfo objects: the same instant
DtEq(a, b) == a.year = b.year /\ a.month = b.month /\ Instant(a) = Instant(b)

\* the "started" string of a worklog: "%Y-%m-%dT%H:%M:%S.<millis>%z"
StartedString(dt, millis) ==
  [year |-> dt.year, month |-> dt.month, day |-> dt.day, hour |-> dt.hour,
   minute |-> dt.minute, second |-> dt.second, millis |-> millis, utcoffset |-> dt.utcoffset]

\* datetime.strptime(s, "%Y-%m-%dT%H:%M:%S.000%z"): ValueError unless the
\* milliseconds are the literal 000
strptime(s) ==
  IF s.millis = 0
  THEN [year |-> s.year, month |-> s.month, day |-> s.day, hour |-> s.hour,
        minute |-> s.minute, second |-> s.second, utcoffset |-> s.utcoffset]
  ELSE [error |-> "ValueError"]

\* the worklog record a full row describes
Normalize(row) ==
  [started_dt |-> started_dt(Field(row, "date"), Field(row, "time_from")),
   duration_sec |-> duration_sec(Field(row, "duration")),
   issue_id |-> Field(row, "issue_id"),
   description |-> Field(row, "description")]

\* the four locals before the first full row binds them
NoRecord == [started_dt |-> [error |-> "unbound"], duration_sec |-> 0, issue_id |-> "unbound",
             description |-> "unbound"]

(***************************************************************************)
(* The server's worklogs before the run.                                   *)
(***************************************************************************)
NineLocal == started_dt(Day, Nine)
TenLocal == started_dt(Day, Ten)
\* 08:00 at +0000: the instant of 09:00 at +0100
EightUtc == [NineLocal EXCEPT !.hour = 8, !.utcoffset = 0]

\* a worklog of the authenticated user that the row <<Day, Nine, _, 0:01:00, issue, _>>
\* describes
Described(issue) ==
  [issue |-> issue, author |-> Me, started |-> StartedString(NineLocal, 0),
   timeSpentSeconds |-> 60, comment |-> "old"]

\* the worklogs explored: the described one of each issue, and those that differ
\* from the described one of PROJ-1 in one field: the author, the start (another
\* instant; the same instant written at another offset; the same instant with
\* milliseconds), the duration
RemoteWorklogs ==
  {Described(is) : is \in Issues}
  \cup
  {[Described("PROJ-1") EXCEPT !.author = "V"],
   [Described("PROJ-1") EXCEPT !.started = StartedString(TenLocal, 0)],
   [Described("PROJ-1") EXCEPT !.started = StartedString(EightUtc, 0)],
   [Described("PROJ-1") EXCEPT !.started = StartedString(NineLocal, 500)],
   [Described("PROJ-1") EXCEPT !.timeSpentSeconds = 5415]}

VARIABLES
  args,           \* the parsed command line
  file,           \* the spreadsheet file: whether it exists, and its rows
  faults,         \* whether the network may fail a valid request
  pc,             \* where the script is
  loaded,         \* whether pyex.get_sheet has run
  sheet,          \* the loaded rows
  jira_user_key,  \* jira.myself()["key"]
  i,              \* the row the for loop over the sheet is at
  rec,            \* started_dt, duration_sec, issue_id, description of the row
  issues,         \* dict: issue_id -> list of its worklogs
  worklogs,       \* dict: worklog -> its detail, in insertion order
  j,              \* position of the loop over issues[issue_id]
  k,              \* position of the loop over worklogs
  remote,         \* every worklog the server has had; its id is its index
  deleted,        \* the ids of those that were deleted
  calls,          \* the remote calls made so far, in order
  reports,        \* the "Would add" / "Would delete" lines printed so far
  run             \* which invocation this is

vars == <<args, file, faults, pc, loaded, sheet, jira_user_key, i, rec, issues,
          worklogs, j, k, remote, deleted, calls, reports, run>>

(***************************************************************************)
(* The remote service, as the script's calls see it.                       *)
(***************************************************************************)
\* the results a call can have: an invalid request always fails, a valid one
\* fails only when the network does
Outcomes(valid) == IF ~valid THEN {FALSE} ELSE IF faults THEN {TRUE, FALSE} ELSE {TRUE}

\* the entry of the call log for one remote call
Call(op, arg, ok) == [op |-> op, arg |-> arg, ok |-> ok, row |-> i, run |-> run]

\* the worklog with this id is on the server
Exists(id) == id \in 1..Len(remote) /\ id \notin deleted

\* the Worklog resource of a server worklog: its id and its raw JSON
Resource(id) == [id |-> id, raw |-> remote[id]]

\* jira.worklogs(issue): the issue's worklogs, oldest first
RECURSIVE WorklogsFrom(_, _)
WorklogsFrom(issue, n) ==
  IF n > Len(remote) THEN <<>>
  ELSE IF Exists(n) /\ remote[n].issue = issue
       THEN <<Resource(n)>> \o WorklogsFrom(issue, n + 1)
       ELSE WorklogsFrom(issue, n + 1)

JiraWorklogs(issue) == WorklogsFrom(issue, 1)

\* the worklog jira.add_worklog(issue, started, timeSpentSeconds, comment) creates:
\* started is sent as started.strftime("%Y-%m-%dT%H:%M:%S.000%z")
AddedWorklog(issue, started, timeSpentSeconds, comment) ==
  [issue |-> issue, author |-> jira_user_key, started |-> StartedString(started, 0),
   timeSpentSeconds |-> timeSpentSeconds, comment |-> comment]

(***************************************************************************)
(* Python dicts, as sequences of key/value pairs in insertion order.       *)
(***************************************************************************)
\* a membership test that never finds the key
HasKeyNever(d, key) == FALSE

\* key in d
HasKey(d, key) == \E n \in 1..Len(d) : d[n].key = key

\* d[key] = value
DictSet(d, key, value) ==
  IF HasKey(d, key)
  THEN [n \in 1..Len(d) |-> IF d[n].key = key THEN [key |-> key, value |-> value] ELSE d[n]]
  ELSE Append(d, [key |-> key, value |-> value])

\* d[key]
DictGet(d, key) == d[CHOOSE n \in 1..Len(d) : d[n].key = key].value

(***************************************************************************)
(* The spreadsheet.                                                        *)
(***************************************************************************)
\* no file at the path given to --file
NoFile == [isfile |-> FALSE, rows |-> <<>>]

\* the files explored: the rows of the sheet named by --sheet
Files == {NoFile} \cup {[isfile |-> TRUE, rows |-> rows] : rows \in SeqsUpTo(Rows, MaxRows)}

\* pyex.get_sheet(start_row, row_limit, skip_empty_rows=True): the rows from
\* start_row on, row_limit of them when row_limit is positive and all of them
\* otherwise, without the empty ones
get_sheet(rows, start_row, row_limit) ==
  LET last == IF row_limit > 0 /\ start_row + row_limit < Len(rows)
              THEN start_row + row_limit ELSE Len(rows)
  IN SelectSeq(SubSeq(rows, start_row + 1, last), LAMBDA row : Len(row) > 0)

(***************************************************************************)
(* The state after the command line is parsed.                             *)
(***************************************************************************)
Args == [yolo : BOOLEAN, command : {"create", "remove"},
         start : 0..MaxRows, end : 0..MaxRows]

LocalsInit ==
  /\ pc = "check"
  /\ loaded = FALSE
  /\ sheet = <<>>
  /\ jira_user_key = "unset"
  /\ i = 0
  /\ rec = NoRecord
  /\ issues = <<>>
  /\ worklogs = <<>>
  /\ j = 0
  /\ k = 0

\* a window over the whole file
WholeFile(a) == a.start = 0 /\ a.end = MaxRows

\* Every command line and file is explored against an empty server, and every
\* server against every existing file read through a window over all of it.
Init ==
  /\ args \in Args
  /\ file \in Files
  /\ faults = TRUE
  /\ remote \in SeqsUpTo(RemoteWorklogs, MaxRemote)
  /\ remote = <<>> \/ (file.isfile /\ WholeFile(args))
  /\ deleted = {}
  /\ calls = <<>>
  /\ reports = <<>>
  /\ run = 1
  /\ LocalsInit

(***************************************************************************)
(* The script.                                                             *)
(***************************************************************************)
\* an exception that is caught and ignored
RaiseSwallowed == pc' = pc

\* an uncaught exception: the interpreter prints the traceback and exits
Raise == pc' = "crashed"

\* the gate left open
YoloAlways == TRUE

\* args.yolo: really do it
Yolo == args.yolo

\* the check of line 56 left out
RowIndexesInvalidNoEq(start, end) == end > 0 /\ end < start

\* lines 53-58: the row indexes the script refuses
RowIndexesInvalid(start, end) ==
  \/ end > 0 /\ end < start
  \/ end = start

\* lines 47-58: the sanity checks, each ending in exit(1)
SanityChecks ==
  /\ pc = "check"
  /\ pc' = IF ~file.isfile THEN "exit"
           ELSE IF RowIndexesInvalid(args.start, args.end) THEN "exit"
           ELSE "load"
  /\ UNCHANGED <<args, file, faults, loaded, sheet, jira_user_key, i, rec, issues,
                 worklogs, j, k, remote, deleted, calls, reports, run>>

\* lines 64-70: load the rows of the window
LoadSheet ==
  /\ pc = "load"
  /\ sheet' = get_sheet(file.rows, args.start, args.end - args.start)
  /\ loaded' = TRUE
  /\ pc' = "auth"
  /\ UNCHANGED <<args, file, faults, jira_user_key, i, rec, issues, worklogs, j, k,
                 remote, deleted, calls, reports, run>>

\* lines 75-77 and the loop set-up of lines 81 and 115-117: authenticate, read
\* the user's key, and start on the first row
Authenticate ==
  /\ pc = "auth"
  /\ \E ok \in Outcomes(TRUE) :
       /\ calls' = Append(calls, Call("myself", <<>>, ok))
       /\ IF ok
          THEN /\ jira_user_key' = Me
               /\ i' = 1
               /\ pc' = "row"
          ELSE /\ Raise
               /\ UNCHANGED <<jira_user_key, i>>
  /\ UNCHANGED <<args, file, faults, loaded, sheet, rec, issues, worklogs, j, k,
                 remote, deleted, reports, run>>

\* lines 81-106: one iteration of the create loop
CreateRow ==
  /\ pc = "row"
  /\ args.command = "create"
  /\ i <= Len(sheet)
  /\ LET row == sheet[i]
         r == Normalize(row)
     IN IF Len(row) < LenFmap
        THEN /\ i' = i + 1
             /\ UNCHANGED <<pc, rec, remote, calls, reports>>
        ELSE /\ rec' = r
             /\ IF Yolo
                THEN \E ok \in Outcomes(TRUE) :
                       /\ calls' = Append(calls, Call("add_worklog", r, ok))
                       /\ IF ok
                          THEN /\ remote' = Append(remote,
                                      AddedWorklog(r.issue_id, r.started_dt,
                                                   r.duration_sec, r.description))
                               /\ i' = i + 1
                               /\ UNCHANGED pc
                          ELSE /\ Raise
                               /\ UNCHANGED <<remote, i>>
                       /\ UNCHANGED reports
                ELSE /\ reports' = Append(reports,
                            [line |-> "Would add", what |-> r, row |-> i])
                     /\ i' = i + 1
                     /\ UNCHANGED <<pc, remote, calls>>
  /\ UNCHANGED <<args, file, faults, loaded, sheet, jira_user_key, issues, worklogs,
                 j, k, deleted, run>>

\* the test without the author
MatchesAnyAuthor(worklog, record) ==
  /\ DtEq(strptime(worklog.raw.started), record.started_dt)
  /\ worklog.raw.timeSpentSeconds = record.duration_sec

\* the test narrowed to the worklogs of the record's own issue
MatchesOwnIssue(worklog, record) ==
  /\ worklog.raw.issue = record.issue_id
  /\ worklog.raw.author = jira_user_key
  /\ DtEq(strptime(worklog.raw.started), record.started_dt)
  /\ worklog.raw.timeSpentSeconds = record.duration_sec

\* the test of line 159 of a cached worklog against the row's record
Matches(worklog, record) ==
  LET worklog_author_key == worklog.raw.author
      worklog_started_dt == strptime(worklog.raw.started)
      worklog_duration_sec == worklog.raw.timeSpentSeconds
  IN /\ worklog_author_key = jira_user_key
     /\ DtEq(worklog_started_dt, record.started_dt)
     /\ worklog_duration_sec = record.duration_sec

\* lines 117-142: the head of one iteration of the remove loop, up to and
\* including the listing of the issue's worklogs when the issue is not cached
RemoveRow ==
  /\ pc = "row"
  /\ args.command = "remove"
  /\ i <= Len(sheet)
  /\ LET row == sheet[i]
         r == Normalize(row)
     IN IF Len(row) < LenFmap
        THEN /\ i' = i + 1
             /\ UNCHANGED <<pc, rec, issues, j, k, calls>>
        ELSE /\ rec' = r
             /\ IF ~HasKey(issues, r.issue_id)
                THEN \E ok \in Outcomes(TRUE) :
                       /\ calls' = Append(calls, Call("worklogs", r.issue_id, ok))
                       /\ IF ok
                          THEN /\ issues' = DictSet(issues, r.issue_id,
                                                    JiraWorklogs(r.issue_id))
                               /\ j' = 1
                               /\ pc' = "fetch"
                          ELSE /\ Raise
                               /\ UNCHANGED <<issues, j>>
                       /\ UNCHANGED <<i, k>>
                ELSE /\ k' = 1
                     /\ pc' = "scan"
                     /\ UNCHANGED <<i, issues, j, calls>>
  /\ UNCHANGED <<args, file, faults, loaded, sheet, jira_user_key, worklogs, remote,
                 deleted, reports, run>>

\* lines 145-149: one iteration of the loop that fetches the detail of each
\* worklog of the issue just listed, or the end of that loop
FetchDetail ==
  /\ pc = "fetch"
  /\ LET list == DictGet(issues, rec.issue_id)
     IN IF j <= Len(list)
        THEN LET worklog_id == list[j]
             IN \E ok \in Outcomes(Exists(worklog_id.id)) :
                  /\ calls' = Append(calls, Call("worklog", worklog_id.id, ok))
                  /\ IF ok
                     THEN /\ worklogs' = DictSet(worklogs, worklog_id,
                                                 Resource(worklog_id.id))
                          /\ j' = j + 1
                          /\ UNCHANGED pc
                     ELSE /\ Raise
                          /\ UNCHANGED <<worklogs, j>>
                  /\ UNCHANGED k
        ELSE /\ k' = 1
             /\ pc' = "scan"
             /\ UNCHANGED <<worklogs, j, calls>>
  /\ UNCHANGED <<args, file, faults, loaded, sheet, jira_user_key, i, rec, issues,
                 remote, deleted, reports, run>>

\* lines 153-168: one iteration of the loop over the keys of the worklogs dict,
\* or the end of that loop and so of the row
ScanStep ==
  /\ pc = "scan"
  /\ IF k <= Len(worklogs)
     THEN LET worklog == worklogs[k].key
          IN IF "error" \in DOMAIN strptime(worklog.raw.started)
             THEN /\ Raise
                  /\ UNCHANGED <<i, k, deleted, calls, reports>>
             ELSE IF Matches(worklog, rec)
             THEN IF Yolo
                  THEN \E ok \in Outcomes(Exists(worklog.id)) :
                         /\ calls' = Append(calls, Call("delete", worklog.id, ok))
                         /\ IF ok
                            THEN /\ deleted' = deleted \cup {worklog.id}
                                 /\ k' = k + 1
                                 /\ UNCHANGED pc
                            ELSE /\ Raise
                                 /\ UNCHANGED <<deleted, k>>
                         /\ UNCHANGED <<i, reports>>
                  ELSE /\ reports' = Append(reports,
                              [line |-> "Would delete", what |-> worklog.id, row |-> i])
                       /\ k' = k + 1
                       /\ UNCHANGED <<pc, i, deleted, calls>>
             ELSE /\ k' = k + 1
                  /\ UNCHANGED <<pc, i, deleted, calls, reports>>
     ELSE /\ i' = i + 1
          /\ pc' = "row"
          /\ UNCHANGED <<k, deleted, calls, reports>>
  /\ UNCHANGED <<args, file, faults, loaded, sheet, jira_user_key, rec, issues,
                 worklogs, j, remote, run>>

\* the for loop over the sheet is exhausted: the script ends, exit status 0
Finish ==
  /\ pc = "row"
  /\ i > Len(sheet)
  /\ pc' = "done"
  /\ UNCHANGED <<args, file, faults, loaded, sheet, jira_user_key, i, rec, issues,
                 worklogs, j, k, remote, deleted, calls, reports, run>>

Next ==
  \/ SanityChecks
  \/ LoadSheet
  \/ Authenticate
  \/ CreateRow
  \/ RemoveRow
  \/ FetchDetail
  \/ ScanStep
  \/ Finish

Spec == Init /\ [][Next]_vars

(***************************************************************************)
(* Two invocations on the same sheet against a reliable network: create in *)
(* confirm mode, then remove in confirm mode.                              *)
(***************************************************************************)
InitRT ==
  /\ args \in {a \in Args : a.yolo /\ a.command = "create" /\ WholeFile(a)}
  /\ file \in {f \in Files : f.isfile}
  /\ faults = FALSE
  /\ remote \in SeqsUpTo(RemoteWorklogs, MaxRemote)
  /\ deleted = {}
  /\ calls = <<>>
  /\ reports = <<>>
  /\ run = 1
  /\ LocalsInit

\* the create run has ended normally; the operator runs remove with the same
\* arguments: a new process, whose only inheritance is the server's state
Rerun ==
  /\ pc = "done"
  /\ run = 1
  /\ args.command = "create"
  /\ args' = [args EXCEPT !.command = "remove"]
  /\ run' = 2
  /\ pc' = "check"
  /\ loaded' = FALSE
  /\ sheet' = <<>>
  /\ jira_user_key' = "unset"
  /\ i' = 0
  /\ rec' = NoRecord
  /\ issues' = <<>>
  /\ worklogs' = <<>>
  /\ j' = 0
  /\ k' = 0
  /\ UNCHANGED <<file, faults, remote, deleted, calls, reports>>

NextRT == Next \/ Rerun

SpecRT == InitRT /\ [][NextRT]_vars

(***************************************************************************)
(* What the properties below are stated in: the call log, the reports and  *)
(* the server, read without the script's own operators.                    *)
(***************************************************************************)
\* the positions of the call log that hold a call of this operation
CallsOf(op) == {n \in 1..Len(calls) : calls[n].op = op}

\* how many times the operation was called with this argument
Count(op, arg) == Cardinality({n \in CallsOf(op) : calls[n].arg = arg})

\* a row with at least 6 fields
IsFull(row) == Len(row) >= 6

\* the record of a full row: issue_id, started_at, duration_seconds, description
RecordOf(row) ==
  [started_dt |-> [year |-> row[1].year, month |-> row[1].month, day |-> row[1].day,
                   hour |-> row[2].hour, minute |-> row[2].minute,
                   second |-> row[2].second, utcoffset |-> 3600],
   duration_sec |-> row[4].hour * 3600 + row[4].minute * 60 + row[4].second,
   issue_id |-> row[5],
   description |-> row[6]]

\* the moment a start denotes, in seconds of the month in UTC
UtcSeconds(t) == t.day * 86400 + t.hour * 3600 + t.minute * 60 + t.second - t.utcoffset

\* the heuristic: the user's own worklog, started at the record's moment, of
\* the record's duration
Heuristic(w, r) ==
  /\ w.author = Me
  /\ w.started.year = r.started_dt.year
  /\ w.started.month = r.started_dt.month
  /\ w.started.millis = 0
  /\ UtcSeconds(w.started) = UtcSeconds(r.started_dt)
  /\ w.timeSpentSeconds = r.duration_sec

\* the worklogs a delete was invoked on, or a deletion reported for, while
\* the given row was processed
DeletesAt(row) == {calls[n].arg : n \in {m \in CallsOf("delete") : calls[m].row = row}}
ReportsAt(row) ==
  {reports[n].what :
     n \in {m \in 1..Len(reports) : reports[m].line = "Would delete" /\ reports[m].row = row}}

\* the worklogs the add-worklog calls of the run created
Created ==
  {id \in 1..Len(remote) :
     id > Len(remote) - Cardinality({n \in CallsOf("add_worklog") : calls[n].ok})}

\* the issues of the full rows among the first n rows of the sheet
IssuesUpTo(n) == {sheet[m][5] : m \in {q \in 1..n : q <= Len(sheet) /\ IsFull(sheet[q])}}

(***************************************************************************)
(* C1. In dry-run mode no step of a run invokes add-worklog or delete, and *)
(* no step changes the server's worklogs.                                  *)
(***************************************************************************)
C1_DryRunMutatesNothing ==
  [][~args.yolo =>
       /\ remote' = remote
       /\ deleted' = deleted
       /\ \A n \in 1..Len(calls') : calls'[n].op \notin {"add_worklog", "delete"}]_vars

\* a dry remove run that ended after reporting a deletion it would make
C1_Witness ==
  /\ ~args.yolo
  /\ args.command = "remove"
  /\ pc = "done"
  /\ \E n \in 1..Len(reports) : reports[n].line = "Would delete"

(***************************************************************************)
(* C2. In a confirm-mode remove run every delete is invoked on a worklog   *)
(* whose author is the authenticated user, whose start is the moment of    *)
(* the record of the row being processed and whose duration is that        *)
(* record's; and nothing is deleted but by such a call.                    *)
(***************************************************************************)
C2_DeleteOnlyMatching ==
  /\ \A n \in CallsOf("delete") :
       /\ args.command = "remove"
       /\ args.yolo
       /\ IsFull(sheet[calls[n].row])
       /\ Heuristic(remote[calls[n].arg], RecordOf(sheet[calls[n].row]))
  /\ \A id \in deleted : \E n \in CallsOf("delete") : calls[n].arg = id /\ calls[n].ok

\* a run that deleted a worklog and left another author's worklog of the same
\* issue, start and duration
C2_Witness ==
  /\ pc = "done"
  /\ \E a \in deleted : \E b \in 1..Len(remote) \ deleted :
       /\ remote[b].author # Me
       /\ remote[b] = [remote[a] EXCEPT !.author = remote[b].author]
       /\ \E n \in 1..Len(worklogs) : worklogs[n].key.id = b

(***************************************************************************)
(* C3. While a row of a remove run is scanned, the cache holds the         *)
(* worklogs of every issue of the rows so far, and the worklogs acted upon *)
(* for the row (deleted in confirm mode, reported in dry-run) are exactly  *)
(* the scanned ones that match the row's record: when the scan ends, all   *)
(* the matching worklogs of the cache.                                     *)
(***************************************************************************)
C3_ScanActsOnEveryMatch ==
  pc = "scan" =>
    /\ {worklogs[n].key.id : n \in 1..Len(worklogs)}
         = {id \in 1..Len(remote) : remote[id].issue \in IssuesUpTo(i)}
    /\ (IF args.yolo THEN DeletesAt(i) ELSE ReportsAt(i))
         = {worklogs[n].key.id :
              n \in {m \in 1..Len(worklogs) :
                       m < k /\ Heuristic(worklogs[m].key.raw, RecordOf(sheet[i]))}}

\* the scan of a row has ended after deleting two worklogs, one of them of an
\* issue that is not the row's
C3_Witness ==
  /\ pc = "scan"
  /\ args.yolo
  /\ k > Len(worklogs)
  /\ \E a \in DeletesAt(i) : \E b \in DeletesAt(i) :
       a # b /\ remote[a].issue # rec.issue_id /\ {a, b} \subseteq deleted

(***************************************************************************)
(* C4. In a remove run the worklogs of an issue are listed at most once    *)
(* and the detail of a worklog is fetched at most once; a run that ends    *)
(* normally has listed exactly the issues of its full rows, once each, and *)
(* fetched exactly the worklogs of those issues, once each; and an entry   *)
(* of either cache, once written, stays as it is.                          *)
(***************************************************************************)
C4_Counts ==
  args.command = "remove" =>
    /\ \A is \in Issues : Count("worklogs", is) <= 1
    /\ \A id \in 1..Len(remote) : Count("worklog", id) <= 1
    /\ pc = "done" =>
         /\ \A is \in Issues :
              Count("worklogs", is) = IF is \in IssuesUpTo(Len(sheet)) THEN 1 ELSE 0
         /\ \A id \in 1..Len(remote) :
              Count("worklog", id)
                = IF remote[id].issue \in IssuesUpTo(Len(sheet)) THEN 1 ELSE 0

C4_EntriesStay ==
  /\ \A n \in 1..Len(issues) : Len(issues') >= n /\ issues'[n] = issues[n]
  /\ \A n \in 1..Len(worklogs) : Len(worklogs') >= n /\ worklogs'[n] = worklogs[n]

C4_CachePopulatedOnce == [](C4_Counts) /\ [][C4_EntriesStay]_vars

\* a remove run that ended normally on a sheet with two rows for one issue
\* that has two worklogs
C4_Witness ==
  /\ args.command = "remove"
  /\ pc = "done"
  /\ Len(sheet) = 2
  /\ IsFull(sheet[1]) /\ IsFull(sheet[2])
  /\ sheet[1][5] = sheet[2][5]
  /\ Cardinality({id \in 1..Len(remote) : remote[id].issue = sheet[1][5]}) = 2

(***************************************************************************)
(* C5. A confirm-mode create run that ends normally has called add-worklog *)
(* once for each full row of the sheet, in row order, with the row's       *)
(* issue_id, started_at, duration_seconds = h*3600 + m*60 + s and          *)
(* description, and the server has those worklogs, in that order.          *)
(***************************************************************************)
RECURSIVE ExpectedAdds(_)
ExpectedAdds(n) ==
  IF n = 0 THEN <<>>
  ELSE IF IsFull(sheet[n])
       THEN Append(ExpectedAdds(n - 1), [arg |-> RecordOf(sheet[n]), row |-> n])
       ELSE ExpectedAdds(n - 1)

C5_OneAddPerFullRowInOrder ==
  (args.command = "create" /\ args.yolo /\ pc = "done") =>
    LET adds == SelectSeq(calls, LAMBDA c : c.op = "add_worklog")
        want == ExpectedAdds(Len(sheet))
    IN /\ Len(adds) = Len(want)
       /\ \A n \in 1..Len(want) :
            /\ adds[n].arg = want[n].arg
            /\ adds[n].row = want[n].row
            /\ adds[n].ok
            /\ LET w == remote[Len(remote) - Len(want) + n]
               IN /\ w.issue = want[n].arg.issue_id
                  /\ w.timeSpentSeconds = want[n].arg.duration_sec
                  /\ w.comment = want[n].arg.description
                  /\ w.author = Me
                  /\ w.started.millis = 0
                  /\ UtcSeconds(w.started) = UtcSeconds(want[n].arg.started_dt)

\* a confirm-mode create run that ended normally on a short row followed by
\* a full row of 1:30:15
C5_Witness ==
  /\ args.command = "create"
  /\ args.yolo
  /\ pc = "done"
  /\ Len(sheet) = 2
  /\ ~IsFull(sheet[1])
  /\ IsFull(sheet[2])
  /\ Count("add_worklog", RecordOf(sheet[2])) = 1
  /\ remote[Len(remote)].timeSpentSeconds = 5415

(***************************************************************************)
(* C6. With a row window whose end equals its start, or whose end is       *)
(* greater than 0 and less than its start, the run never gets past the     *)
(* checks: the sheet is never loaded and no remote call is made.           *)
(***************************************************************************)
C6_BadWindowRejectedFirst ==
  (args.end = args.start \/ (args.end > 0 /\ args.end < args.start)) =>
    /\ pc \in {"check", "exit"}
    /\ ~loaded
    /\ sheet = <<>>
    /\ jira_user_key = "unset"
    /\ calls = <<>>

\* an existing file and a window that ends where it starts, after the first
\* row: rejected
C6_Witness ==
  /\ pc = "exit"
  /\ file.isfile
  /\ args.end = args.start
  /\ args.start > 0

(***************************************************************************)
(* C7. A step in which a remote call fails ends the run and changes        *)
(* nothing on the server; once the run has ended that way nothing happens  *)
(* any more: no row is processed, no call is made, and what was created or *)
(* deleted before stays.                                                   *)
(***************************************************************************)
C7_FailureEndsRun ==
  [][/\ (Len(calls') > Len(calls) /\ ~calls'[Len(calls')].ok) =>
          /\ pc' = "crashed"
          /\ remote' = remote
          /\ deleted' = deleted
          /\ i' = i
     /\ pc = "crashed" => UNCHANGED vars]_vars

\* a confirm-mode remove run that a failed call ended after a deletion, with
\* a row still to process
C7_Witness ==
  /\ pc = "crashed"
  /\ args.command = "remove"
  /\ deleted # {}
  /\ i < Len(sheet)
  /\ ~calls[Len(calls)].ok

(***************************************************************************)
(* C8. A run with neither --start nor --end (both 0), an existing file and *)
(* a valid subcommand is not rejected by the checks.                       *)
(***************************************************************************)
C8_DefaultWindowAccepted ==
  (file.isfile /\ args.start = 0 /\ args.end = 0) => pc # "exit"

(***************************************************************************)
(* C9. In a confirm-mode remove run delete is invoked at most once on any  *)
(* worklog.                                                                *)
(***************************************************************************)
C9_DeleteAtMostOnce ==
  \A id \in 1..Len(remote) : Count("delete", id) <= 1

(***************************************************************************)
(* C10. After create in confirm mode and then remove in confirm mode on    *)
(* the same sheet, against a server that fails only invalid requests and   *)
(* whose earlier worklogs all have a start the script can parse, none of   *)
(* the worklogs the create run added is left.                              *)
(***************************************************************************)
C10_RoundTrip ==
  (/\ run = 2
   /\ pc \in {"done", "crashed", "exit"}
   /\ \A id \in 1..Len(remote) : remote[id].started.millis = 0)
  => Created \subseteq deleted

====
